---------------------------- MODULE Spec2Model ----------------------------
(***************************************************************************)
(* Model of the natural-language-to-SQL pipeline of US-Census:             *)
(*   src/streamlit_app.py          main (the Streamlit request flow)       *)
(*   src/src/response_handler.py   generate_initial_response,              *)
(*                                 trigger_fallback_logic, get_response    *)
(*   src/src/data_handler.py       refine_response, get_data, data_handle, *)
(*                                 process_llm_response                    *)
(*                                                                         *)
(* A text is a sequence of symbols.  A symbol is one character (" ", "\n", *)
(* "s", ..., the backtick written "BACKTICK") or an opaque run of          *)
(* characters that holds no backtick and no whitespace (a word), or a      *)
(* sentence without backticks and without whitespace at its ends.          *)
(***************************************************************************)
EXTENDS Integers, Sequences, FiniteSets, TLC

(***************************************************************************)
(* Bounds of the model.                                                    *)
(***************************************************************************)
\* longest fenced interior / free text handed to refine_response
MaxLen == 3
\* most segments (words, blocks, file references) in a summarizer text
MaxSegs == 3
\* how far the row counts of the result tables reach around 0 and around the
\* threshold of the router
RowSlack == 1
\* statements in a generated code block
MaxStmts == 2

(***************************************************************************)
(* Text helpers: Python's str.strip, startswith, endswith, "in".           *)
(***************************************************************************)
IsSpace(c) == c \in {" ", "\n", "\t"}

StartsWith(t, p) == Len(t) >= Len(p) /\ SubSeq(t, 1, Len(p)) = p

EndsWith(t, p) == Len(t) >= Len(p) /\ SubSeq(t, Len(t) - Len(p) + 1, Len(t)) = p

\* Python: s in t
Contains(t, s) ==
    \E i \in 1..(Len(t) - Len(s) + 1) : SubSeq(t, i, i + Len(s) - 1) = s

lstrip(t) ==
    IF \A i \in 1..Len(t) : IsSpace(t[i])
    THEN << >>
    ELSE LET first == CHOOSE i \in 1..Len(t) :
                          /\ ~IsSpace(t[i])
                          /\ \A j \in 1..(i - 1) : IsSpace(t[j])
         IN  SubSeq(t, first, Len(t))

rstrip(t) ==
    IF \A i \in 1..Len(t) : IsSpace(t[i])
    THEN << >>
    ELSE LET last == CHOOSE i \in 1..Len(t) :
                         /\ ~IsSpace(t[i])
                         /\ \A j \in (i + 1)..Len(t) : IsSpace(t[j])
         IN  SubSeq(t, 1, last)

\* Python: t.strip()
strip(t) == rstrip(lstrip(t))

SeqsUpTo(S, n) == UNION {[1..k -> S] : k \in 0..n}

(***************************************************************************)
(* refine_response (src/src/data_handler.py:56-88).                        *)
(***************************************************************************)
\* the backtick character
BT == "BACKTICK"
FENCE == <<BT, BT, BT>>
SQL_TAG == <<"s", "q", "l">>
FENCE_SQL == FENCE \o SQL_TAG

\* a mutant of sub_sql_tag: the pattern is compiled with re.IGNORECASE
sub_sql_tag_ignorecase(t) ==
    IF /\ Len(t) >= 3
       /\ t[1] \in {"s", "S"} /\ t[2] \in {"q", "Q"} /\ t[3] \in {"l", "L"}
    THEN lstrip(SubSeq(t, 4, Len(t)))
    ELSE t

\* re.sub(r"^sql\s*", "", response): no flags, so the tag is matched in lower
\* case only; \s* is greedy
sub_sql_tag(t) ==
    IF StartsWith(t, SQL_TAG) THEN lstrip(SubSeq(t, 4, Len(t))) ELSE t

\* a mutant of sub_wrap: the pattern is not anchored at the end of the text
sub_wrap_unanchored(open, close, t) ==
    IF /\ StartsWith(t, open)
       /\ \E i \in (Len(open) + 1)..(Len(t) - Len(close) + 1) :
              SubSeq(t, i, i + Len(close) - 1) = close
    THEN LET last == CHOOSE i \in (Len(open) + 1)..(Len(t) - Len(close) + 1) :
                         /\ SubSeq(t, i, i + Len(close) - 1) = close
                         /\ \A j \in (i + 1)..(Len(t) - Len(close) + 1) :
                                SubSeq(t, j, j + Len(close) - 1) # close
         IN  SubSeq(t, Len(open) + 1, last - 1)
                 \o SubSeq(t, last + Len(close), Len(t))
    ELSE t

\* a mutant of sub_wrap: the opening decoration is removed, the closing is kept
sub_wrap_open_only(open, close, t) ==
    IF StartsWith(t, open) /\ EndsWith(t, close) /\ Len(t) >= Len(open) + Len(close)
    THEN SubSeq(t, Len(open) + 1, Len(t))
    ELSE t

\* re.sub("^" + open + "(.*)" + close + "$", r"\1", t, flags=re.DOTALL):
\* the match starts at position 0 only; "$" matches at the end of the text or
\* just before a newline that is the last character, and that newline is not
\* part of the match, so it stays in the result.
sub_wrap(open, close, t) ==
    LET n == Len(t)
        m == Len(open) + Len(close)
    IN  IF n >= m /\ StartsWith(t, open) /\ EndsWith(t, close)
        THEN SubSeq(t, Len(open) + 1, n - Len(close))
        ELSE IF /\ n >= m + 1
                /\ StartsWith(t, open)
                /\ t[n] = "\n"
                /\ EndsWith(SubSeq(t, 1, n - 1), close)
             THEN SubSeq(t, Len(open) + 1, n - 1 - Len(close)) \o <<"\n">>
             ELSE t

\* the four substitutions of the try block, in the order of the source
substitute(t) ==
    sub_wrap(<<BT>>, <<BT>>,
        sub_wrap(FENCE, FENCE,
            sub_wrap(FENCE_SQL, FENCE,
                sub_sql_tag(t))))

\* A Python value handed to refine_response: a str, a bytes object or None.
\* re.sub raises TypeError on anything but a str (the patterns are str
\* patterns); the bare except swallows it and leaves response as it was.
\* The final response.strip() is outside the try block: bytes has strip,
\* None has not (AttributeError).
refine_response(response) ==
    IF response.kind = "str"
    THEN [status |-> "returned", kind |-> "str", val |-> strip(substitute(response.val)),
          logged |-> FALSE]
    ELSE IF response.kind = "bytes"
    THEN [status |-> "returned", kind |-> "bytes", val |-> strip(response.val),
          logged |-> TRUE]
    ELSE [status |-> "raised", kind |-> "AttributeError", val |-> << >>,
          logged |-> TRUE]

Str(t) == [kind |-> "str", val |-> t]

(***************************************************************************)
(* process_llm_response (src/src/data_handler.py:735-816).                 *)
(* Words are symbols made of word characters only (\w); "." is a symbol of *)
(* its own, so a file reference chart.png is <<"chart", ".", "png">>.      *)
(***************************************************************************)
PYTHON_TAG == <<"python">>
LABEL == "Python Code:"
ERROR_LABEL == "Error generating visualization:"

\* symbols that consist of word characters
IsWord(c) ==
    c \in {"w", "x", "python", "png", "html", "json", "mkchart", "raise", "raisefile", "exit",
           "boom", "mkchartdf", "readfile", "settext", "uselogger", "usechart", "NameError",
           "FileNotFoundError"}

\* symbols whose first character is a word character
WordStart(c) == IsWord(c) \/ c \in {LABEL, ERROR_LABEL}

\* symbols whose last character is a word character
WordEnd(c) == IsWord(c)

Min(S) == CHOOSE i \in S : \A j \in S : i <= j

\* index of the first closing fence at or after position from, 0 when none
FirstFence(t, from) ==
    LET at == {j \in from..(Len(t) - 2) : SubSeq(t, j, j + 2) = FENCE}
    IN  IF at = {} THEN 0 ELSE Min(at)

\* open(.*?)``` matches at position i: the opening is there, a closing fence
\* follows, and without re.DOTALL no newline lies between them
BlockAt(t, open, dotall, i) ==
    /\ i + Len(open) - 1 <= Len(t)
    /\ SubSeq(t, i, i + Len(open) - 1) = open
    /\ FirstFence(t, i + Len(open)) # 0
    /\ dotall \/ \A k \in (i + Len(open))..(FirstFence(t, i + Len(open)) - 1) : t[k] # "\n"

BlockStarts(t, open, dotall) == {i \in 1..Len(t) : BlockAt(t, open, dotall, i)}

\* re.sub(open + "(.*?)```", "", t, flags): every match, left to right, is removed
RECURSIVE remove_blocks(_, _, _)
remove_blocks(t, open, dotall) ==
    IF BlockStarts(t, open, dotall) = {}
    THEN t
    ELSE LET i == Min(BlockStarts(t, open, dotall))
             j == FirstFence(t, i + Len(open))
         IN  SubSeq(t, 1, i - 1) \o remove_blocks(SubSeq(t, j + 3, Len(t)), open, dotall)

\* \b\w+\.ext\b matches from position i: a run of words that starts at a word
\* boundary, then ".", then ext, then a word boundary
FileRefEnd(t, ext, i) ==
    IF /\ IsWord(t[i])
       /\ (i = 1 \/ ~WordEnd(t[i - 1]))
    THEN LET ends == {k \in (i + 2)..Len(t) :
                         /\ \A m \in i..(k - 2) : IsWord(t[m])
                         /\ t[k - 1] = "."
                         /\ t[k] = ext
                         /\ (k = Len(t) \/ ~WordStart(t[k + 1]))}
         IN  IF ends = {} THEN 0 ELSE Min(ends)
    ELSE 0

FileRefStarts(t, ext) == {i \in 1..Len(t) : FileRefEnd(t, ext, i) # 0}

\* re.sub(r"\b\w+\.ext\b", "", t)
RECURSIVE remove_file_refs(_, _)
remove_file_refs(t, ext) ==
    IF FileRefStarts(t, ext) = {}
    THEN t
    ELSE LET i == Min(FileRefStarts(t, ext))
             k == FileRefEnd(t, ext, i)
         IN  SubSeq(t, 1, i - 1) \o remove_file_refs(SubSeq(t, k + 1, Len(t)), ext)

\* re.sub(r"Python Code:\s*", "", t)
RECURSIVE remove_label(_)
remove_label(t) ==
    IF \A i \in 1..Len(t) : t[i] # LABEL
    THEN t
    ELSE LET i == Min({k \in 1..Len(t) : t[k] = LABEL})
         IN  SubSeq(t, 1, i - 1) \o remove_label(lstrip(SubSeq(t, i + 1, Len(t))))

\* step 4 of process_llm_response (lines 769-774), each substitution trimmed
clean_before_exec(t) ==
    LET a == strip(remove_blocks(t, FENCE \o PYTHON_TAG, TRUE))
        b == strip(remove_file_refs(a, "png"))
        c == strip(remove_label(b))
        d == strip(remove_file_refs(c, "html"))
        e == strip(remove_file_refs(d, "json"))
    IN  strip(remove_blocks(e, FENCE, FALSE))

\* the second cleaning, after a successful exec (lines 800-807)
clean_after_exec(t) ==
    LET a == strip(remove_blocks(t, FENCE \o PYTHON_TAG, TRUE))
        b == strip(remove_file_refs(a, "png"))
        c == strip(remove_file_refs(b, "html"))
        d == strip(remove_file_refs(c, "json"))
        e == strip(remove_blocks(d, FENCE, FALSE))
    IN  strip(remove_label(e))

\* re.search(code_pattern, response_text, re.DOTALL)
code_found(t) == BlockStarts(t, FENCE \o PYTHON_TAG, TRUE) # {}

\* a mutant of code_of: the interior of the last ```python block
code_of_last(t) ==
    LET starts == BlockStarts(t, FENCE \o PYTHON_TAG, TRUE)
        i == CHOOSE k \in starts : \A m \in starts : m <= k
        j == FirstFence(t, i + 4)
    IN  strip(SubSeq(t, i + 4, j - 1))

\* code_match.group(1).strip(): the interior of the first ```python block
code_of(t) ==
    LET i == Min(BlockStarts(t, FENCE \o PYTHON_TAG, TRUE))
        j == FirstFence(t, i + 4)
    IN  strip(SubSeq(t, i + 4, j - 1))

(***************************************************************************)
(* exec(code, local_vars).  The code is whatever the language model wrote; *)
(* its statements are symbols:                                             *)
(*   "mkchart"    chart = alt.Chart(data)...                               *)
(*   "readfile"   df = pd.read_json('data.json'), FileNotFoundError when   *)
(*                there is no such file                                    *)
(*   "mkchartdf"  chart = alt.Chart(df)...                                 *)
(*   "settext"    response_text = ...                                      *)
(*   "uselogger"  logger.info(...)                                         *)
(*   "usechart"   chart.save(...)                                          *)
(*   "raise"      raises an Exception                                      *)
(*   "raisefile"  raises an Exception whose message names a file           *)
(*   "exit"       raises SystemExit, which is no subclass of Exception     *)
(* and every other symbol has no effect on the namespace.  A name is bound *)
(* to an object [kind, code, data]; a statement that reads a name the      *)
(* namespace does not bind raises NameError.                               *)
(***************************************************************************)
Stops == {"raise", "raisefile", "exit"}

NoneChart == [kind |-> "None", code |-> << >>, data |-> [type |-> "none", rows |-> << >>]]

\* Python's None, and data.json when there is no such file
NoneValue == [type |-> "None", rows |-> << >>]

Module(name) == [kind |-> "module", code |-> <<name>>, data |-> NoneChart.data]

\* a mutant of local_vars: the namespace also binds names of the caller
local_vars_with_caller(data) ==
    [n \in {"pd", "alt", "data", "logger", "response_text"} |->
        IF n = "data" THEN [kind |-> "data", code |-> << >>, data |-> data]
        ELSE IF n \in {"pd", "alt", "logger"} THEN Module(n)
        ELSE [kind |-> "str", code |-> << >>, data |-> NoneChart.data]]

\* the dict of lines 786-790: pd, alt and data, nothing else
local_vars(data) ==
    [n \in {"pd", "alt", "data"} |->
        IF n = "data" THEN [kind |-> "data", code |-> << >>, data |-> data]
        ELSE Module(n)]

\* the names a statement reads
Reads(s) ==
    IF s = "mkchart" THEN {"alt", "data"}
    ELSE IF s = "readfile" THEN {"pd"}
    ELSE IF s = "mkchartdf" THEN {"alt", "df"}
    ELSE IF s = "uselogger" THEN {"logger"}
    ELSE IF s = "usechart" THEN {"chart"}
    ELSE {}

\* the namespace with name bound (or bound again) to object
Bind(namespace, name, object) ==
    [n \in DOMAIN namespace \cup {name} |-> IF n = name THEN object ELSE namespace[n]]

\* the namespace once statement s of code has run in it; file is the content
\* of data.json
Assign(code, s, namespace, file) ==
    IF s = "mkchart"
    THEN Bind(namespace, "chart",
              [kind |-> "Chart", code |-> code, data |-> namespace["data"].data])
    ELSE IF s = "readfile"
    THEN Bind(namespace, "df", [kind |-> "data", code |-> << >>, data |-> file])
    ELSE IF s = "mkchartdf"
    THEN Bind(namespace, "chart",
              [kind |-> "Chart", code |-> code, data |-> namespace["df"].data])
    ELSE IF s = "settext"
    THEN Bind(namespace, "response_text",
              [kind |-> "str", code |-> code, data |-> NoneChart.data])
    ELSE namespace

\* the statements of code from the i-th on, run in namespace
RECURSIVE run_statements(_, _, _, _)
run_statements(code, i, namespace, file) ==
    IF i > Len(code)
    THEN [outcome |-> "ok", message |-> << >>, namespace |-> namespace]
    ELSE IF code[i] = "exit"
    THEN [outcome |-> "SystemExit", message |-> << >>, namespace |-> namespace]
    ELSE IF code[i] = "raise"
    THEN [outcome |-> "Exception", message |-> <<"boom">>, namespace |-> namespace]
    ELSE IF code[i] = "raisefile"
    THEN [outcome |-> "Exception", message |-> <<"w", ".", "json">>, namespace |-> namespace]
    ELSE IF Reads(code[i]) \ DOMAIN namespace # {}
    THEN [outcome |-> "Exception", message |-> <<"NameError">>, namespace |-> namespace]
    ELSE IF code[i] = "readfile" /\ file = NoneValue
    THEN [outcome |-> "Exception", message |-> <<"FileNotFoundError">>,
          namespace |-> namespace]
    ELSE run_statements(code, i + 1, Assign(code, code[i], namespace, file), file)

\* exec(code, local_vars) and the test "chart" in local_vars that follows it;
\* file is the content of data.json when the code runs
exec(code, namespace, file) ==
    LET run == run_statements(code, 1, namespace, file)
        bound == "chart" \in DOMAIN run.namespace
    IN  [outcome |-> run.outcome,
         message |-> run.message,
         namespace |-> run.namespace,
         chart_bound |-> bound,
         chart |-> IF bound THEN run.namespace["chart"] ELSE NoneChart]

\* what process_llm_response returns when it runs nothing
NotExecuted(cleaned) ==
    [status |-> "returned", text |-> cleaned, chart |-> NoneChart, execs |-> 0,
     local_vars |-> << >>]

\* a mutant of execute_code: chart is read from local_vars in the except
\* clause as well
execute_code_keeps_chart(cleaned, code, namespace, file) ==
    LET run == exec(code, namespace, file)
    IN  IF run.outcome = "ok"
        THEN [status |-> "returned", text |-> clean_after_exec(cleaned),
              chart |-> run.chart, execs |-> 1, local_vars |-> run.namespace]
        ELSE IF run.outcome = "Exception"
        THEN [status |-> "returned",
              text |-> cleaned \o <<"\n", ERROR_LABEL, " ">> \o run.message,
              chart |-> run.chart, execs |-> 1, local_vars |-> run.namespace]
        ELSE [status |-> "raised", text |-> << >>, chart |-> NoneChart,
              execs |-> 1, local_vars |-> run.namespace]

\* lines 781-816 for the code block code, run in the dict local_vars: the
\* tuple returned, or the exception that leaves the function ("except
\* Exception" lets SystemExit through)
execute_code(cleaned, code, namespace, file) ==
    LET run == exec(code, namespace, file)
    IN  IF run.outcome = "ok"
        THEN [status |-> "returned", text |-> clean_after_exec(cleaned),
              chart |-> run.chart, execs |-> 1, local_vars |-> run.namespace]
        ELSE IF run.outcome = "Exception"
        THEN [status |-> "returned",
              text |-> cleaned \o <<"\n", ERROR_LABEL, " ">> \o run.message,
              chart |-> NoneChart, execs |-> 1, local_vars |-> run.namespace]
        ELSE [status |-> "raised", text |-> << >>, chart |-> NoneChart,
              execs |-> 1, local_vars |-> run.namespace]

\* a mutant of process_llm_response: the search for code uses nocode_pattern,
\* so the interior of any fenced block is executed
process_llm_response_any_fence(response_text, data, file) ==
    LET cleaned == clean_before_exec(response_text)
        starts == BlockStarts(response_text, FENCE, TRUE)
    IN  IF starts = {}
        THEN NotExecuted(cleaned)
        ELSE LET i == Min(starts)
                 j == FirstFence(response_text, i + 3)
             IN  execute_code(cleaned, strip(SubSeq(response_text, i + 3, j - 1)),
                              local_vars(data), file)

\* process_llm_response(response_text, data); file is the content of data.json
\* when it is called
process_llm_response(response_text, data, file) ==
    LET cleaned == clean_before_exec(response_text)
    IN  IF ~code_found(response_text)
        THEN NotExecuted(cleaned)
        ELSE execute_code(cleaned, code_of(response_text), local_vars(data), file)

(***************************************************************************)
(* The translator and the fallback repair (src/src/response_handler.py).   *)
(* An outcome of an external call is [raised, content]: the call raised,   *)
(* or it returned a message with that content.                             *)
(***************************************************************************)
S1 == "I cannot generate a SQL query"
S2 == "for this request based on the provided schema."

\* the sentence SYSTEM_PROMPT tells the model to answer with, which is also
\* the literal get_response looks for (response_handler.py:123)
SENTINEL == <<S1, " ", S2>>

\* columns of indentation in front of the second line of the literal
INDENT == 28

\* the literal main looks for (streamlit_app.py:91-92): a triple-quoted string
\* broken over two source lines, so it holds the line break and the
\* indentation of the second line where SENTINEL holds one space
STREAMLIT_SENTINEL == <<S1, "\n">> \o [i \in 1..INDENT |-> " "] \o <<S2>>

APOLOGY == <<"An error occurred while processing your request. Please try again later.">>

FALLBACK_APOLOGY ==
    <<"An error occurred while processing the fallback logic. Please try again later.">>

Raised == [raised |-> TRUE, content |-> << >>]

Returned(t) == [raised |-> FALSE, content |-> t]

\* generate_initial_response: retrieval is the outcome of
\* vector_store.similarity_search, llm the outcome of llm.invoke
generate_initial_response(retrieval, llm) ==
    IF retrieval.raised \/ llm.raised THEN APOLOGY ELSE strip(llm.content)

\* a mutant of trigger_fallback_logic: the except clause returns the apology of
\* generate_initial_response
trigger_fallback_logic_other_apology(llm) ==
    IF llm.raised THEN APOLOGY ELSE strip(llm.content)

\* trigger_fallback_logic: llm is the outcome of the second llm.invoke
trigger_fallback_logic(llm) ==
    IF llm.raised THEN FALLBACK_APOLOGY ELSE strip(llm.content)

\* a mutant of is_fallback: equality with the sentinel instead of containment
is_fallback_equal(response, sentinel) == response = sentinel

\* the test "<sentinel> in response" of get_response and of main
is_fallback(response, sentinel) == Contains(response, sentinel)

\* get_response: which return statement was reached, and the value returned
get_response(retrieval, llm, retrieval2, llm2) ==
    LET response == generate_initial_response(retrieval, llm)
    IN  IF is_fallback(response, SENTINEL)
        THEN IF retrieval2.raised
             THEN [via |-> "except", val |-> APOLOGY, response |-> response]
             ELSE [via |-> "trigger_fallback_logic", val |-> trigger_fallback_logic(llm2),
                   response |-> response]
        ELSE [via |-> "response", val |-> response, response |-> response]

(***************************************************************************)
(* Tables (pandas DataFrames) and the router (src/src/data_handler.py).    *)
(* A table is a sequence of rows, a row a sequence of cells, a cell a      *)
(* value v or a missing value.                                             *)
(***************************************************************************)
THRESHOLD == 100
HEAD_ROWS == 10

Cell(v) == [missing |-> FALSE, v |-> v]
Missing == [missing |-> TRUE, v |-> 0]

DataFrame(rows) == [type |-> "DataFrame", rows |-> rows]

\* a mutant of fillna: missing values are left as they are
fillna_none(rows) == rows

\* data.fillna(0, inplace=True)
fillna(rows) ==
    [i \in 1..Len(rows) |->
        [j \in 1..Len(rows[i]) |-> IF rows[i][j].missing THEN Cell(0) ELSE rows[i][j]]]

\* data[(data != 0).any(axis=1)].reset_index(drop=True): the rows that hold a
\* cell other than 0, in their order; the k-th of them is the row k places
\* after the all-zero rows in front of it
drop_zero_rows(rows) ==
    LET zero == {i \in 1..Len(rows) : \A j \in 1..Len(rows[i]) : rows[i][j] = Cell(0)}
        kept == Len(rows) - Cardinality(zero)
    IN  [k \in 1..kept |->
            rows[CHOOSE i \in k..(k + Cardinality(zero)) :
                     /\ i \notin zero
                     /\ i - Cardinality({d \in zero : d < i}) = k]]

\* preprocess_data: missing values become 0, then the rows whose cells are all
\* 0 are dropped and the index is reset
preprocess_data(rows) == drop_zero_rows(fillna(rows))

\* a mutant of get_head: the last rows instead of the first
get_head_tail(rows, n) ==
    SubSeq(rows, IF Len(rows) < n THEN 1 ELSE Len(rows) - n + 1, Len(rows))

\* data.head(rows)
get_head(rows, n) == SubSeq(rows, 1, IF Len(rows) < n THEN Len(rows) ELSE n)

\* a mutant of large_path: the cutoff is taken as exclusive
large_path_inclusive(data_rows) == data_rows >= THRESHOLD

\* the test of data_handle (line 846); the elif of line 856 is its negation
large_path(data_rows) == data_rows > THRESHOLD

\* data_handle(data, user_input, llm, filename, rows): llm is the outcome of the
\* summarizer's llm.invoke.  file is what the call leaves in data.json (the
\* filename and rows arguments are not used: large_data is called with the
\* literals "data.json" and 10).  ret is the tuple returned.
data_handle(data, user_input, llm, filename, rows, file) ==
    LET data_rows == Len(data.rows)
        preprocessed == preprocess_data(data.rows)
        large == large_path(data_rows)
        object == IF large
                  THEN DataFrame(preprocessed)
                  ELSE [type |-> "json", rows |-> preprocessed]
        shown == IF large THEN get_head(preprocessed, HEAD_ROWS) ELSE preprocessed
        done == IF llm.raised
                THEN [status |-> "raised", text |-> << >>, chart |-> NoneChart, execs |-> 0,
                      local_vars |-> << >>]
                ELSE process_llm_response(strip(llm.content), object,
                                          IF large THEN DataFrame(preprocessed) ELSE file)
    IN  [path |-> IF large THEN "large" ELSE "short",
         file |-> IF large THEN DataFrame(preprocessed) ELSE file,
         prompt |-> [rows |-> shown, query |-> user_input],
         status |-> done.status,
         execs |-> done.execs,
         ret |-> IF done.status = "raised" THEN << >>
                 ELSE IF large THEN <<done.text, done.chart>>
                 ELSE <<data_rows, done.text, done.chart>>]

(***************************************************************************)
(* State.                                                                  *)
(***************************************************************************)
VARIABLES
    \* one call of refine_response
    rr_pc,              \* "ready" before the call, "done" after
    rr_input,           \* the argument
    rr_result,          \* what the call produced
    \* one call of process_llm_response
    pl_pc,              \* "ready" before the call, "done" after
    pl_input,           \* the response_text argument
    pl_result,          \* what the call produced
    \* one call of get_response
    gr_pc,              \* "ready" before the call, "done" after
    gr_input,           \* the outcomes of the external calls it makes
    gr_result,          \* what the call produced
    \* calls of data_handle
    dh_pc,              \* "ready" before a call, "done" after
    dh_input,           \* the arguments and the outcome of llm.invoke
    dh_result,          \* what the call produced
    dh_file,            \* the content of data.json
    \* the Streamlit request flow (main)
    pc,                 \* the stage the request is at
    user_query,         \* the text of the text area
    initial_response,   \* what generate_initial_response returned
    translator_failed,  \* the translator's retrieval or llm.invoke raised
    refined_response,   \* what refine_response returned
    bq_query,           \* the queries handed to bq_manager.execute_query
    data,               \* what get_data returned
    path,               \* the path data_handle took: "short", "large", "none"
    summary,            \* the summarizer's text
    file,               \* the content of data.json
    outputs,            \* what the page shows for the request, in order
    calls,              \* how often each stage ran in the request
    crashed,            \* an exception left main
    \* calls of data_handle that run at the same time, one per session
    req,                \* for each of them: its arguments, its position, its locals
    disk                \* the content of data.json in the working directory they share

refineVars == <<rr_pc, rr_input, rr_result>>

processVars == <<pl_pc, pl_input, pl_result>>

responseVars == <<gr_pc, gr_input, gr_result>>

handleVars == <<dh_pc, dh_input, dh_result, dh_file>>

flowVars ==
    <<pc, user_query, initial_response, translator_failed, refined_response, bq_query,
      data, path, summary, file, outputs, calls, crashed>>

concVars == <<req, disk>>

vars == <<refineVars, processVars, responseVars, handleVars, flowVars, concVars>>

(***************************************************************************)
(* The values of the variables of a part that a specification leaves out.  *)
(***************************************************************************)
NoResult == [status |-> "none", kind |-> "none", val |-> << >>, logged |-> FALSE]

NoProcess ==
    [status |-> "none", text |-> << >>, chart |-> NoneChart, execs |-> 0, local_vars |-> << >>]

NoCalls ==
    [translator |-> 0, fallback |-> 0, refine |-> 0, get_data |-> 0, data_handle |-> 0,
     summarizer |-> 0, process |-> 0, exec |-> 0]

RefineOff == rr_pc = "off" /\ rr_input = Str(<< >>) /\ rr_result = NoResult

ProcessOff == pl_pc = "off" /\ pl_input = << >> /\ pl_result = NoProcess

ResponseOff == gr_pc = "off" /\ gr_input = << >> /\ gr_result = << >>

HandleOff == dh_pc = "off" /\ dh_input = << >> /\ dh_result = << >> /\ dh_file = NoneValue

RequestStart ==
    /\ user_query = << >>
    /\ initial_response = << >>
    /\ translator_failed = FALSE
    /\ refined_response = << >>
    /\ bq_query = << >>
    /\ data = NoneValue
    /\ path = "none"
    /\ summary = << >>
    /\ outputs = << >>
    /\ calls = NoCalls
    /\ crashed = FALSE

FlowOff == pc = "off" /\ file = NoneValue /\ RequestStart

ConcOff == req = << >> /\ disk = NoneValue

(***************************************************************************)
(* refine_response on its own.                                             *)
(***************************************************************************)
RefineChars == {BT, "x", " ", "\n"}

RefinePrefixes ==
    { << >>, FENCE_SQL, FENCE, <<BT>>, SQL_TAG, <<"S", "Q", "L">>, <<"S", "q", "l">>,
      SQL_TAG \o <<" ">>, <<" ">> \o SQL_TAG, SQL_TAG \o SQL_TAG }

RefineSuffixes == { << >>, FENCE, <<BT>>, FENCE \o <<"\n">>, <<BT, "\n">> }

RefineTexts ==
    { p \o m \o s : p \in RefinePrefixes, m \in SeqsUpTo(RefineChars, MaxLen),
                    s \in RefineSuffixes }

RefineInputs ==
    {Str(t) : t \in RefineTexts}
        \cup {[kind |-> "bytes", val |-> t] : t \in SeqsUpTo(RefineChars, 1)}
        \cup {[kind |-> "None", val |-> << >>]}

InitRefine ==
    /\ rr_pc = "ready"
    /\ rr_input \in RefineInputs
    /\ rr_result = NoResult
    /\ ProcessOff /\ ResponseOff /\ HandleOff /\ FlowOff /\ ConcOff

\* one call refine_response(rr_input)
RefineCall ==
    /\ rr_pc = "ready"
    /\ rr_result' = refine_response(rr_input)
    /\ rr_pc' = "done"
    /\ UNCHANGED <<rr_input, processVars, responseVars, handleVars, flowVars, concVars>>

NextRefine == RefineCall

SpecRefine == InitRefine /\ [][NextRefine]_vars

(***************************************************************************)
(* refine_response applied to its own result.                              *)
(***************************************************************************)
\* refine_response(refine_response(rr_input)): the second call, on what the
\* first call returned (kept in the field first)
RefineAgain ==
    /\ rr_pc = "done"
    /\ rr_result.status = "returned"
    /\ LET second == refine_response([kind |-> rr_result.kind, val |-> rr_result.val])
       IN  rr_result' = [status |-> second.status, kind |-> second.kind, val |-> second.val,
                         logged |-> second.logged, first |-> rr_result.val]
    /\ rr_pc' = "twice"
    /\ UNCHANGED <<rr_input, processVars, responseVars, handleVars, flowVars, concVars>>

NextRefineTwice == RefineCall \/ RefineAgain

SpecRefineTwice == InitRefine /\ [][NextRefineTwice]_vars

(***************************************************************************)
(* process_llm_response on its own: the summarizer's text is drawn from    *)
(* the texts made of at most MaxSegs segments.                             *)
(***************************************************************************)
ProcCodes ==
    { <<"w">>, <<"mkchart">>, <<"raise">>, <<"exit">>, <<"raisefile">>,
      <<"mkchart", "\n", "raise">> }

PythonBlock(code) == FENCE \o PYTHON_TAG \o <<"\n">> \o code \o <<"\n">> \o FENCE

ProcSegments ==
    {PythonBlock(c) : c \in ProcCodes}
        \cup { <<"w">>, <<" ">>, <<"\n">>, <<LABEL>>, FENCE,
               FENCE \o <<"x">> \o FENCE,
               FENCE \o <<"\n", "x", "\n">> \o FENCE,
               <<"w", ".", "png">>, <<"w", ".", "html">>, <<"w", ".", "json">> }

RECURSIVE SegTexts(_)
SegTexts(n) ==
    IF n = 0 THEN { << >> }
    ELSE SegTexts(n - 1) \cup {t \o g : t \in SegTexts(n - 1), g \in ProcSegments}

\* the data object handed to the executed code
NoData == [type |-> "none", rows |-> << >>]

InitProcess ==
    /\ pl_pc = "ready"
    /\ pl_input \in SegTexts(MaxSegs)
    /\ pl_result = NoProcess
    /\ RefineOff /\ ResponseOff /\ HandleOff /\ FlowOff /\ ConcOff

\* one call process_llm_response(pl_input, data)
ProcessCall ==
    /\ pl_pc = "ready"
    /\ pl_result' = process_llm_response(pl_input, NoData, NoneValue)
    /\ pl_pc' = "done"
    /\ UNCHANGED <<pl_input, refineVars, responseVars, handleVars, flowVars, concVars>>

NextProcess == ProcessCall

SpecProcess == InitProcess /\ [][NextProcess]_vars

(***************************************************************************)
(* process_llm_response on code blocks that read and bind names: the       *)
(* blocks of at most MaxStmts statements, one statement per line.          *)
(***************************************************************************)
ExecStatements ==
    {"mkchart", "readfile", "mkchartdf", "settext", "uselogger", "usechart", "raise", "w"}

\* the statements, one per line
Lines(stmts) ==
    [i \in 1..(2 * Len(stmts) - 1) |-> IF i % 2 = 1 THEN stmts[(i + 1) \div 2] ELSE "\n"]

ExecCodes == {Lines(c) : c \in SeqsUpTo(ExecStatements, MaxStmts) \ { << >> }}

ExecTexts == {p \o PythonBlock(c) : p \in { << >>, <<"w", "\n">> }, c \in ExecCodes}

InitExec ==
    /\ pl_pc = "ready"
    /\ pl_input \in ExecTexts
    /\ pl_result = NoProcess
    /\ RefineOff /\ ResponseOff /\ HandleOff /\ FlowOff /\ ConcOff

SpecExec == InitExec /\ [][NextProcess]_vars

(***************************************************************************)
(* What the language model may answer to the translator prompt.            *)
(***************************************************************************)
SQL == "SELECT State FROM demographics"

TranslatorCores ==
    { SENTINEL, STREAMLIT_SENTINEL, <<S1>>, <<SQL>>, <<BT, SQL, BT>>,
      FENCE_SQL \o <<"\n", SQL, "\n">> \o FENCE }

TranslatorTexts ==
    { p \o c \o s : p \in { << >>, <<"x", " ">> }, c \in TranslatorCores,
                    s \in { << >>, <<" ", "x">>, <<"\n">> } }

LlmOutcomes(texts) == {Raised} \cup {Returned(t) : t \in texts}

\* the outcomes of vector_store.similarity_search (its documents only feed the prompt)
RetrievalOutcomes == {Raised, Returned(<< >>)}

FallbackTexts == { <<"Why the Query Failed">>, <<" ", "Refined Prompts", "\n">> }

(***************************************************************************)
(* get_response on its own.                                                *)
(***************************************************************************)
InitResponse ==
    /\ gr_pc = "ready"
    /\ gr_input \in [retrieval : RetrievalOutcomes, llm : LlmOutcomes(TranslatorTexts),
                     retrieval2 : RetrievalOutcomes, llm2 : LlmOutcomes(FallbackTexts)]
    /\ gr_result = << >>
    /\ RefineOff /\ ProcessOff /\ HandleOff /\ FlowOff /\ ConcOff

\* one call get_response(user_input, llm, vector_store, k)
GetResponseCall ==
    /\ gr_pc = "ready"
    /\ gr_result' = get_response(gr_input.retrieval, gr_input.llm,
                                 gr_input.retrieval2, gr_input.llm2)
    /\ gr_pc' = "done"
    /\ UNCHANGED <<gr_input, refineVars, processVars, handleVars, flowVars, concVars>>

NextResponse == GetResponseCall

SpecResponse == InitResponse /\ [][NextResponse]_vars

(***************************************************************************)
(* Result tables and summarizer texts.                                     *)
(***************************************************************************)
RowCounts == (0..RowSlack) \cup ((THRESHOLD - RowSlack)..(THRESHOLD + RowSlack))

\* the first row is plain, holds a missing value, or is empty once cleaned;
\* row i of the rest holds the value i, so that the order of the rows shows
FirstRow(k) ==
    IF k = "plain" THEN <<Cell(1), Cell(1)>>
    ELSE IF k = "missing" THEN <<Missing, Cell(1)>>
    ELSE <<Missing, Cell(0)>>

Table(n, k) == [i \in 1..n |-> IF i = 1 THEN FirstRow(k) ELSE <<Cell(i), Cell(i)>>]

Tables == {DataFrame(Table(n, k)) : n \in RowCounts, k \in {"plain", "missing", "zero"}}

SummaryTexts ==
    { << >>, <<"w">>, <<"w", " ", "w", ".", "json">>,
      <<"w", "\n">> \o PythonBlock(<<"mkchart">>),
      <<"w", "\n">> \o PythonBlock(<<"mkchart", "\n", "raise">>),
      <<"w", "\n">> \o PythonBlock(<<"exit">>),
      PythonBlock(<<"mkchart">>) }

(***************************************************************************)
(* data_handle on its own, called again and again.                         *)
(***************************************************************************)
\* the filename and rows arguments a caller may pass
HandleArgs == { <<"data.json", HEAD_ROWS>>, <<"other.json", HEAD_ROWS + 1>> }

HandleSummaries ==
    { <<"w">>, <<"w", "\n">> \o PythonBlock(<<"mkchart">>),
      <<"w", "\n">> \o PythonBlock(<<"exit">>) }

HandleInputs ==
    { [data |-> d, user_input |-> q, filename |-> a[1], rows |-> a[2], llm |-> o] :
          d \in Tables, q \in { <<"q1">>, <<"q2">> }, a \in HandleArgs,
          o \in LlmOutcomes(HandleSummaries) }

InitHandle ==
    /\ dh_pc = "ready"
    /\ dh_input \in HandleInputs
    /\ dh_result = << >>
    /\ dh_file = NoneValue
    /\ RefineOff /\ ProcessOff /\ ResponseOff /\ FlowOff /\ ConcOff

\* one call data_handle(data, user_input, llm, filename, rows)
DataHandleCall ==
    /\ dh_pc = "ready"
    /\ LET r == data_handle(dh_input.data, dh_input.user_input, dh_input.llm,
                            dh_input.filename, dh_input.rows, dh_file)
       IN  dh_result' = r /\ dh_file' = r.file
    /\ dh_pc' = "done"
    /\ UNCHANGED <<dh_input, refineVars, processVars, responseVars, flowVars, concVars>>

\* the next call, with other arguments; data.json stays as the last call left it
DataHandleAgain ==
    /\ dh_pc = "done"
    /\ dh_input' \in HandleInputs
    /\ dh_result' = << >>
    /\ dh_pc' = "ready"
    /\ UNCHANGED <<dh_file, refineVars, processVars, responseVars, flowVars, concVars>>

NextHandle == DataHandleCall \/ DataHandleAgain

SpecHandle == InitHandle /\ [][NextHandle]_vars

(***************************************************************************)
(* The Streamlit request flow: main (src/streamlit_app.py:73-147), one     *)
(* action per stage of a request.                                          *)
(***************************************************************************)
Queries == { <<"List states with unemployment over 10%">> }

Shown(kind, text, chart) == [kind |-> kind, text |-> text, chart |-> chart]

Bump(stage) == [calls EXCEPT ![stage] = @ + 1]

FlowSummaries ==
    { << >>, <<"w">>, <<"w", "\n">> \o PythonBlock(<<"mkchart">>),
      <<"w", "\n">> \o PythonBlock(<<"raise">>),
      <<"w", "\n">> \o PythonBlock(<<"exit">>) }

Init ==
    /\ pc = "idle"
    /\ file = NoneValue
    /\ RequestStart
    /\ RefineOff /\ ProcessOff /\ ResponseOff /\ HandleOff /\ ConcOff

\* Submit is pressed: an empty text area is answered at once (line 147)
Submit ==
    /\ pc = "idle"
    /\ \E q \in Queries \cup { << >> } :
          /\ user_query' = q
          /\ IF q = << >>
             THEN /\ outputs' = <<Shown("write", <<"Please enter a query.">>, NoneChart)>>
                  /\ pc' = "done"
             ELSE /\ outputs' = << >>
                  /\ pc' = "translate"
    /\ UNCHANGED <<initial_response, translator_failed, refined_response, bq_query, data,
                   path, summary, file, calls, crashed>>
    /\ UNCHANGED <<refineVars, processVars, responseVars, handleVars, concVars>>

\* step 1: generate_initial_response (lines 81-83)
Translate ==
    /\ pc = "translate"
    /\ \E retrieval \in RetrievalOutcomes, llm \in LlmOutcomes(TranslatorTexts) :
          /\ initial_response' = generate_initial_response(retrieval, llm)
          /\ translator_failed' = (retrieval.raised \/ llm.raised)
    /\ calls' = Bump("translator")
    /\ pc' = "classify"
    /\ UNCHANGED <<user_query, refined_response, bq_query, data, path, summary, file,
                   outputs, crashed>>
    /\ UNCHANGED <<refineVars, processVars, responseVars, handleVars, concVars>>

\* a mutant of Fallback: the branch is not terminal, the request goes on to
\* the warehouse
Fallback_falls_through ==
    /\ pc = "classify"
    /\ is_fallback(initial_response, STREAMLIT_SENTINEL)
    /\ \E llm \in LlmOutcomes(FallbackTexts) :
          outputs' = Append(outputs, Shown("write", trigger_fallback_logic(llm), NoneChart))
    /\ calls' = Bump("fallback")
    /\ pc' = "fetch"
    /\ UNCHANGED <<user_query, initial_response, translator_failed, refined_response,
                   bq_query, data, path, summary, file, crashed>>
    /\ UNCHANGED <<refineVars, processVars, responseVars, handleVars, concVars>>

\* step 2, the if branch: trigger_fallback_logic and st.write (lines 90-102)
Fallback ==
    /\ pc = "classify"
    /\ is_fallback(initial_response, STREAMLIT_SENTINEL)
    /\ \E llm \in LlmOutcomes(FallbackTexts) :
          outputs' = Append(outputs, Shown("write", trigger_fallback_logic(llm), NoneChart))
    /\ calls' = Bump("fallback")
    /\ pc' = "done"
    /\ UNCHANGED <<user_query, initial_response, translator_failed, refined_response,
                   bq_query, data, path, summary, file, crashed>>
    /\ UNCHANGED <<refineVars, processVars, responseVars, handleVars, concVars>>

\* step 3, the else branch: refine_response (line 105)
Refine ==
    /\ pc = "classify"
    /\ ~is_fallback(initial_response, STREAMLIT_SENTINEL)
    /\ refined_response' = refine_response(Str(initial_response)).val
    /\ calls' = Bump("refine")
    /\ pc' = "fetch"
    /\ UNCHANGED <<user_query, initial_response, translator_failed, bq_query, data, path,
                   summary, file, outputs, crashed>>
    /\ UNCHANGED <<refineVars, processVars, responseVars, handleVars, concVars>>

\* a mutant of Fetch: the translator's text is sent to the warehouse as it is
Fetch_unrefined ==
    /\ pc = "fetch"
    /\ bq_query' = Append(bq_query, initial_response)
    /\ data' \in {NoneValue} \cup Tables
    /\ calls' = Bump("get_data")
    /\ pc' = "handle"
    /\ UNCHANGED <<user_query, initial_response, translator_failed, refined_response, path,
                   summary, file, outputs, crashed>>
    /\ UNCHANGED <<refineVars, processVars, responseVars, handleVars, concVars>>

\* step 4: get_data (line 112); bq_manager.execute_query raises, and get_data
\* returns None, or it returns a table
Fetch ==
    /\ pc = "fetch"
    /\ bq_query' = Append(bq_query, refined_response)
    /\ data' \in {NoneValue} \cup Tables
    /\ calls' = Bump("get_data")
    /\ pc' = "handle"
    /\ UNCHANGED <<user_query, initial_response, translator_failed, refined_response, path,
                   summary, file, outputs, crashed>>
    /\ UNCHANGED <<refineVars, processVars, responseVars, handleVars, concVars>>

HasRows == data.type = "DataFrame" /\ data.rows # << >>

\* a mutant of NothingFetched: a query that failed is sent again
NothingFetched_retry ==
    /\ pc = "handle"
    /\ ~HasRows
    /\ pc' = IF data = NoneValue THEN "fetch" ELSE "done"
    /\ UNCHANGED <<user_query, initial_response, translator_failed, refined_response,
                   bq_query, data, path, summary, file, outputs, calls, crashed>>
    /\ UNCHANGED <<refineVars, processVars, responseVars, handleVars, concVars>>

\* step 5 when the test of line 119 fails: the if statement has no else
NothingFetched ==
    /\ pc = "handle"
    /\ ~HasRows
    /\ pc' = "done"
    /\ UNCHANGED <<user_query, initial_response, translator_failed, refined_response,
                   bq_query, data, path, summary, file, outputs, calls, crashed>>
    /\ UNCHANGED <<refineVars, processVars, responseVars, handleVars, concVars>>

\* data_handle up to the summarizer's llm.invoke: the path is chosen, the table
\* cleaned (fillna works in place on the caller's table) and, on the large
\* path, written to data.json
Route ==
    /\ pc = "handle"
    /\ HasRows
    /\ path' = IF large_path(Len(data.rows)) THEN "large" ELSE "short"
    /\ file' = IF large_path(Len(data.rows))
               THEN DataFrame(preprocess_data(data.rows)) ELSE file
    /\ data' = DataFrame(fillna(data.rows))
    /\ calls' = Bump("data_handle")
    /\ pc' = "summarize"
    /\ UNCHANGED <<user_query, initial_response, translator_failed, refined_response,
                   bq_query, summary, outputs, crashed>>
    /\ UNCHANGED <<refineVars, processVars, responseVars, handleVars, concVars>>

\* llm.invoke of short_data or large_data; when it raises, nothing between it
\* and the except clause of main (line 144) catches the exception
Summarize ==
    /\ pc = "summarize"
    /\ calls' = Bump("summarizer")
    /\ \E llm \in LlmOutcomes(FlowSummaries) :
          IF llm.raised
          THEN /\ outputs' = Append(outputs, Shown("error", <<"An error occurred:">>, NoneChart))
               /\ summary' = summary
               /\ pc' = "done"
          ELSE /\ summary' = strip(llm.content)
               /\ outputs' = outputs
               /\ pc' = "execute"
    /\ UNCHANGED <<user_query, initial_response, translator_failed, refined_response,
                   bq_query, data, path, file, crashed>>
    /\ UNCHANGED <<refineVars, processVars, responseVars, handleVars, concVars>>

\* what main shows once data_handle has returned ret (lines 120-143); the
\* assignment summary_text, chart = ... raises ValueError unless ret is a pair
Display(ret) ==
    IF Len(ret) # 2
    THEN <<Shown("error", <<"An error occurred:">>, NoneChart)>>
    ELSE IF ret[1] = << >>
    THEN <<Shown("write", <<"No relevant data found.">>, NoneChart)>>
    ELSE <<Shown("write", <<"Data Summary:">>, NoneChart), Shown("write", ret[1], NoneChart)>>
             \o (IF ret[2] = NoneChart THEN << >>
                 ELSE <<Shown("altair_chart", << >>, ret[2])>>)

\* process_llm_response, the return of data_handle and the display; SystemExit
\* is not caught by "except Exception" in process_llm_response nor in main
Execute ==
    /\ pc = "execute"
    /\ LET cleaned == preprocess_data(data.rows)
           object == IF path = "large" THEN DataFrame(cleaned)
                     ELSE [type |-> "json", rows |-> cleaned]
           done == process_llm_response(summary, object, file)
           ret == IF path = "large" THEN <<done.text, done.chart>>
                  ELSE <<Len(data.rows), done.text, done.chart>>
       IN  /\ calls' = [calls EXCEPT !.process = @ + 1, !.exec = @ + done.execs]
           /\ IF done.status = "raised"
              THEN crashed' = TRUE /\ outputs' = outputs
              ELSE crashed' = crashed /\ outputs' = outputs \o Display(ret)
    /\ pc' = "done"
    /\ UNCHANGED <<user_query, initial_response, translator_failed, refined_response,
                   bq_query, data, path, summary, file>>
    /\ UNCHANGED <<refineVars, processVars, responseVars, handleVars, concVars>>

\* the script is run again for the next request; data.json stays on disk
NextRequest ==
    /\ pc = "done"
    /\ pc' = "idle"
    /\ user_query' = << >>
    /\ initial_response' = << >>
    /\ translator_failed' = FALSE
    /\ refined_response' = << >>
    /\ bq_query' = << >>
    /\ data' = NoneValue
    /\ path' = "none"
    /\ summary' = << >>
    /\ outputs' = << >>
    /\ calls' = NoCalls
    /\ crashed' = FALSE
    /\ UNCHANGED file
    /\ UNCHANGED <<refineVars, processVars, responseVars, handleVars, concVars>>

Next ==
    \/ Submit
    \/ Translate
    \/ Fallback
    \/ Refine
    \/ Fetch
    \/ NothingFetched
    \/ Route
    \/ Summarize
    \/ Execute
    \/ NextRequest

Spec == Init /\ [][Next]_vars

(***************************************************************************)
(* Calls of data_handle that run at the same time.  Streamlit runs the     *)
(* script of every session in a thread of its own; the sessions share the  *)
(* working directory and with it the file data.json.  A call is taken      *)
(* apart at the places where another call can run in between: after        *)
(* save_json, and after llm.invoke.                                        *)
(***************************************************************************)
Requests == {"A", "B"}

ConcTables ==
    { DataFrame(Table(1, "plain")),
      DataFrame(Table(THRESHOLD + 1, "plain")),
      DataFrame(Table(THRESHOLD + 1, "zero")) }

ConcSummaries ==
    { <<"w", "\n">> \o PythonBlock(Lines(<<"readfile", "mkchartdf">>)),
      PythonBlock(<<"mkchart">>),
      PythonBlock(<<"usechart">>) }

ConcInputs == [data : ConcTables, llm : LlmOutcomes(ConcSummaries)]

NoLocals == [path |-> "none", preprocessed_data |-> << >>, response |-> << >>]

\* a call of data_handle that has not started
Called(input) ==
    [pc |-> "data_handle", data |-> input.data, llm |-> input.llm, locals |-> NoLocals,
     result |-> NoProcess, ret |-> << >>]

InitConcurrent ==
    /\ req \in [Requests -> {Called(i) : i \in ConcInputs}]
    /\ disk = NoneValue
    /\ RefineOff /\ ProcessOff /\ ResponseOff /\ HandleOff /\ FlowOff

\* the object handed to the summarizer and to the executed code
DataObject(taken, rows) ==
    IF taken = "large" THEN DataFrame(rows) ELSE [type |-> "json", rows |-> rows]

\* a mutant of Prepare: every call writes a file of its own, data.json is
\* left alone
Prepare_own_file(r) ==
    /\ req[r].pc = "data_handle"
    /\ LET large == large_path(Len(req[r].data.rows))
           preprocessed == preprocess_data(req[r].data.rows)
       IN  /\ req' = [req EXCEPT ![r].pc = "invoke",
                                 ![r].locals = [path |-> IF large THEN "large" ELSE "short",
                                                preprocessed_data |-> preprocessed,
                                                response |-> << >>]]
           /\ disk' = disk
    /\ UNCHANGED <<refineVars, processVars, responseVars, handleVars, flowVars>>

\* data_handle up to llm.invoke: the path is chosen (lines 844-858), the
\* table is cleaned and, on the large path, written to data.json
\* (large_data, lines 456-460; short_data, lines 207-208)
Prepare(r) ==
    /\ req[r].pc = "data_handle"
    /\ LET large == large_path(Len(req[r].data.rows))
           preprocessed == preprocess_data(req[r].data.rows)
       IN  /\ req' = [req EXCEPT ![r].pc = "invoke",
                                 ![r].locals = [path |-> IF large THEN "large" ELSE "short",
                                                preprocessed_data |-> preprocessed,
                                                response |-> << >>]]
           /\ disk' = IF large THEN DataFrame(preprocessed) ELSE disk
    /\ UNCHANGED <<refineVars, processVars, responseVars, handleVars, flowVars>>

\* llm.invoke of large_data (line 731) or short_data (line 445): it returns,
\* or it raises and the exception leaves data_handle
Invoke(r) ==
    /\ req[r].pc = "invoke"
    /\ req' = IF req[r].llm.raised
              THEN [req EXCEPT ![r].pc = "raised"]
              ELSE [req EXCEPT ![r].pc = "process",
                               ![r].locals.response = strip(req[r].llm.content)]
    /\ UNCHANGED disk
    /\ UNCHANGED <<refineVars, processVars, responseVars, handleVars, flowVars>>

\* what a call returns, or "raised", once process_llm_response has ended
Finished(r, done) ==
    [req EXCEPT ![r].pc = IF done.status = "raised" THEN "raised" ELSE "done",
                ![r].result = done,
                ![r].ret = IF done.status = "raised" THEN << >>
                           ELSE IF req[r].locals.path = "large"
                           THEN <<done.text, done.chart>>
                           ELSE <<Len(req[r].data.rows), done.text, done.chart>>]

\* a mutant of Process: one dict local_vars for all calls, each call binds
\* data in it and leaves behind what its code bound
Process_shared_namespace(r) ==
    /\ req[r].pc = "process"
    /\ LET response == req[r].locals.response
           object == DataObject(req[r].locals.path, req[r].locals.preprocessed_data)
           left == {q \in Requests \ {r} : req[q].result.local_vars # << >>}
           namespace == IF left = {} THEN local_vars(object)
                        ELSE Bind(req[CHOOSE q \in left : TRUE].result.local_vars, "data",
                                  local_vars(object)["data"])
       IN  req' = Finished(r, IF ~code_found(response)
                              THEN NotExecuted(clean_before_exec(response))
                              ELSE execute_code(clean_before_exec(response),
                                                code_of(response), namespace, disk))
    /\ UNCHANGED disk
    /\ UNCHANGED <<refineVars, processVars, responseVars, handleVars, flowVars>>

\* process_llm_response and the return of data_handle (lines 852-854 and
\* 860-862); the code reads data.json as it is now
Process(r) ==
    /\ req[r].pc = "process"
    /\ req' = Finished(r, process_llm_response(
                              req[r].locals.response,
                              DataObject(req[r].locals.path, req[r].locals.preprocessed_data),
                              disk))
    /\ UNCHANGED disk
    /\ UNCHANGED <<refineVars, processVars, responseVars, handleVars, flowVars>>

\* the session's next request: data_handle is called again
CallAgain(r) ==
    /\ req[r].pc \in {"done", "raised"}
    /\ \E i \in ConcInputs : req' = [req EXCEPT ![r] = Called(i)]
    /\ UNCHANGED disk
    /\ UNCHANGED <<refineVars, processVars, responseVars, handleVars, flowVars>>

NextConcurrent ==
    \E r \in Requests :
        \/ Prepare(r)
        \/ Invoke(r)
        \/ Process(r)
        \/ CallAgain(r)

SpecConcurrent == InitConcurrent /\ [][NextConcurrent]_vars

(***************************************************************************)
(* Claims about the Streamlit request flow, checked under Spec.            *)
(***************************************************************************)
\* C1: whenever the translator's text contains the fallback sentence, the
\* request takes the fallback repair and the warehouse is never queried.
C1_SentinelNeverQueries ==
    Contains(initial_response, SENTINEL)
        => (/\ bq_query = << >>
            /\ calls.get_data = 0
            /\ pc = "done" => calls.fallback = 1)

ChartShown == \E i \in 1..Len(outputs) : outputs[i].kind = "altair_chart"

\* C3: a request that obtained a translator response runs exactly one of the
\* fallback repair and the SQL path (refine_response, then get_data); after the
\* fallback nothing else runs and no chart is shown.
C3_ExactlyOnePath ==
    /\ calls.fallback > 0
          => (/\ pc = "done"
              /\ calls.fallback = 1
              /\ calls.refine = 0 /\ calls.get_data = 0 /\ calls.data_handle = 0
              /\ calls.summarizer = 0 /\ calls.process = 0 /\ calls.exec = 0
              /\ bq_query = << >>
              /\ ~ChartShown)
    /\ calls.get_data > 0 => calls.refine = 1
    /\ (pc = "done" /\ calls.translator > 0)
          => ((calls.fallback = 1) # (calls.refine = 1 /\ calls.get_data = 1))

\* a request that ended on the fallback repair, with the fallback text shown
C3_Witness ==
    /\ pc = "done"
    /\ calls.translator = 1
    /\ calls.fallback = 1
    /\ Len(outputs) = 1
    /\ outputs[1].text = <<"Why the Query Failed">>

\* C4: when the translator's language-model call or schema retrieval raises,
\* the apology is not handed on to refine_response and get_data, and no
\* warehouse query is issued.
C4_FailureAborts ==
    translator_failed
        => (calls.refine = 0 /\ calls.get_data = 0 /\ bq_query = << >>)

(***************************************************************************)
(* Claims about get_response, checked under SpecResponse.                  *)
(***************************************************************************)
\* C2 as stated: get_response returns the result of trigger_fallback_logic if
\* and only if the translator's text contains the sentinel; in every other
\* case it returns the translator's text unchanged.
C2_FallbackIffSentinel ==
    gr_pc = "done"
        => (/\ (gr_result.via = "trigger_fallback_logic")
                   <=> Contains(gr_result.response, SENTINEL)
            /\ gr_result.via = "trigger_fallback_logic"
                   => gr_result.val = trigger_fallback_logic(gr_input.llm2)
            /\ gr_result.via # "trigger_fallback_logic"
                   => gr_result.val = gr_result.response)

\* C2 as amended: get_response returns the result of trigger_fallback_logic if
\* and only if the translator's text contains the sentinel and the second
\* schema retrieval does not raise; when that retrieval raises it returns the
\* fixed apology; when the sentinel is absent it returns the translator's text
\* unchanged.
C2_FallbackIffSentinelRetrieved ==
    gr_pc = "done"
        => (/\ (gr_result.via = "trigger_fallback_logic")
                   <=> (Contains(gr_result.response, SENTINEL) /\ ~gr_input.retrieval2.raised)
            /\ gr_result.via = "trigger_fallback_logic"
                   => gr_result.val = trigger_fallback_logic(gr_input.llm2)
            /\ (Contains(gr_result.response, SENTINEL) /\ gr_input.retrieval2.raised)
                   => gr_result.val = APOLOGY
            /\ ~Contains(gr_result.response, SENTINEL)
                   => gr_result.val = generate_initial_response(gr_input.retrieval, gr_input.llm))

\* the sentinel embedded in a longer text took the fallback
C2_Witness ==
    /\ gr_pc = "done"
    /\ gr_result.response = <<"x", " ">> \o SENTINEL \o <<" ", "x">>
    /\ gr_result.via = "trigger_fallback_logic"
    /\ gr_result.val = <<"Why the Query Failed">>

(***************************************************************************)
(* Claims about process_llm_response, checked under SpecProcess.           *)
(***************************************************************************)
\* C5: when the executed code block raises, whatever it raises,
\* process_llm_response returns the cleaned prose followed by the line
\* "Error generating visualization: <message>".
C5_ExecErrorsContained ==
    (/\ pl_pc = "done"
     /\ code_found(pl_input)
     /\ exec(code_of(pl_input), local_vars(NoData), NoneValue).outcome # "ok")
        => (/\ pl_result.status = "returned"
            /\ pl_result.text =
                  clean_before_exec(pl_input) \o <<"\n", ERROR_LABEL, " ">>
                      \o exec(code_of(pl_input), local_vars(NoData), NoneValue).message)

(***************************************************************************)
(* Claims about data_handle, checked under SpecHandle.                     *)
(***************************************************************************)
\* C6: data_handle takes the short path for a table of at most 100 rows and
\* the large path for a table of more than 100 rows, whatever the cells, the
\* filename and rows arguments, the query and the calls made before.
C6_RouteByRowCount ==
    dh_pc = "done"
        => dh_result.path =
              (IF Len(dh_input.data.rows) <= 100 THEN "short" ELSE "large")

\* a table of exactly 100 rows took the short path, after an earlier call had
\* taken the large path
C6_Witness ==
    /\ dh_pc = "done"
    /\ Len(dh_input.data.rows) = 100
    /\ dh_result.path = "short"
    /\ dh_file # NoneValue
    /\ dh_input.filename = "other.json"

(***************************************************************************)
(* Claims about refine_response, checked under SpecRefine.                 *)
(***************************************************************************)
RefineDone == rr_pc = "done" /\ rr_input.kind = "str"

\* the text begins with a ```sql fence and ends with a closing ``` fence
FencedSql(t) ==
    Len(t) >= Len(FENCE_SQL) + Len(FENCE) /\ StartsWith(t, FENCE_SQL) /\ EndsWith(t, FENCE)

\* what lies between the ```sql fence and the closing fence
Interior(t) == SubSeq(t, Len(FENCE_SQL) + 1, Len(t) - Len(FENCE))

\* the text begins with a backtick and ends with a backtick, or with a backtick
\* and one final newline
BacktickWrapped(t) ==
    /\ Len(t) >= 2
    /\ t[1] = BT
    /\ \/ t[Len(t)] = BT
       \/ Len(t) >= 3 /\ t[Len(t)] = "\n" /\ t[Len(t) - 1] = BT

\* C7 as stated: every text that begins with a ```sql fence and ends with a
\* closing fence is refined to its fenced interior, trimmed, whatever the
\* interior holds.
C7_InteriorWhateverItHolds ==
    (RefineDone /\ FencedSql(rr_input.val))
        => (rr_result.status = "returned"
            /\ rr_result.val = strip(Interior(rr_input.val)))

\* C7 as amended: a text that begins with a ```sql fence and ends with a closing
\* fence is refined to its fenced interior, trimmed, provided the interior is
\* not itself wrapped in backticks (the later substitutions unwrap it further).
C7_InteriorTrimmed ==
    (RefineDone /\ FencedSql(rr_input.val) /\ ~BacktickWrapped(Interior(rr_input.val)))
        => (rr_result.status = "returned"
            /\ rr_result.val = strip(Interior(rr_input.val)))

\* a fenced text whose interior holds backticks and text, and is not wrapped
C7_Witness ==
    /\ RefineDone
    /\ FencedSql(rr_input.val)
    /\ ~BacktickWrapped(Interior(rr_input.val))
    /\ Contains(Interior(rr_input.val), <<BT>>)
    /\ Contains(Interior(rr_input.val), <<"x">>)
    /\ rr_result.val = strip(Interior(rr_input.val))
    /\ rr_result.val # Interior(rr_input.val)

\* the text begins with the letters s, q, l in some casing
HasSqlTag(t) ==
    /\ Len(t) >= 3
    /\ t[1] \in {"s", "S"}
    /\ t[2] \in {"q", "Q"}
    /\ t[3] \in {"l", "L"}

\* no decoration: once trimmed, the text neither begins with a sql tag nor
\* begins and ends with a backtick
Undecorated(t) ==
    LET s == strip(t)
    IN  /\ ~HasSqlTag(s)
        /\ ~(Len(s) >= 2 /\ s[1] = BT /\ s[Len(s)] = BT)

\* C8: a text without decoration is returned trimmed, nothing else removed.
C8_UndecoratedTrimmed ==
    (RefineDone /\ Undecorated(rr_input.val))
        => (rr_result.status = "returned" /\ rr_result.val = strip(rr_input.val))

\* an undecorated text with whitespace around it and a backtick inside it
C8_Witness ==
    /\ RefineDone
    /\ Undecorated(rr_input.val)
    /\ Contains(rr_input.val, <<BT>>)
    /\ Contains(rr_input.val, <<"x">>)
    /\ rr_result.val = strip(rr_input.val)
    /\ rr_result.val # rr_input.val

\* the text after its first three symbols and the whitespace that follows them
AfterTag(t) == lstrip(SubSeq(t, 4, Len(t)))

\* C9 as stated: a leading sql tag in any casing, and the whitespace after it,
\* are absent from the output (shown on texts that carry no other decoration).
C9_TagRemovedAnyCase ==
    (RefineDone /\ HasSqlTag(rr_input.val) /\ Undecorated(AfterTag(rr_input.val)))
        => (rr_result.status = "returned"
            /\ rr_result.val = strip(AfterTag(rr_input.val)))

\* C9 as amended: a leading sql tag in lower case, and the whitespace after it,
\* are absent from the output; a tag in any other casing stays in the output.
C9_TagRemovedLowerCase ==
    (RefineDone /\ HasSqlTag(rr_input.val) /\ Undecorated(AfterTag(rr_input.val)))
        => (/\ rr_result.status = "returned"
            /\ rr_result.val =
                  IF StartsWith(rr_input.val, SQL_TAG)
                  THEN strip(AfterTag(rr_input.val))
                  ELSE strip(rr_input.val))

\* a lower-case tag followed by whitespace and text was removed
C9_Witness ==
    /\ RefineDone
    /\ StartsWith(rr_input.val, SQL_TAG)
    /\ Len(rr_input.val) >= 5
    /\ IsSpace(rr_input.val[4])
    /\ Undecorated(AfterTag(rr_input.val))
    /\ Contains(rr_input.val, <<"x">>)
    /\ rr_result.val = strip(AfterTag(rr_input.val))

\* C10: refine_response never raises; when a substitution fails, the original
\* input is returned trimmed and otherwise unmodified.
C10_NeverRaises ==
    (rr_pc = "done")
        => (/\ rr_result.status = "returned"
            /\ rr_result.logged => rr_result.val = strip(rr_input.val))

(***************************************************************************)
(* Claims about failures of the warehouse and of the summarizer.           *)
(***************************************************************************)
\* some text is on the page: an st.write or an st.error with a message
MessageShown ==
    \E i \in 1..Len(outputs) : outputs[i].kind \in {"write", "error"} /\ outputs[i].text # << >>

\* C11: when bq_manager.execute_query raises, get_data returns None instead of
\* raising, the query is not retried, the summarizer is not called, and the
\* request ends with a textual apology on the page (checked under Spec).
C11_QueryFailureApology ==
    (pc = "done" /\ calls.get_data = 1 /\ data = NoneValue)
        => (/\ Len(bq_query) = 1
            /\ calls.data_handle = 0 /\ calls.summarizer = 0 /\ calls.process = 0
            /\ ~crashed
            /\ MessageShown)

\* C12: when the summarizer's llm.invoke raises, data_handle does not let the
\* exception reach its caller: it returns (checked under SpecHandle).
C12_SummarizerFailureContained ==
    (dh_pc = "done" /\ dh_input.llm.raised)
        => (dh_result.status = "returned" /\ dh_result.ret # << >>)

(***************************************************************************)
(* Claims about trigger_fallback_logic, checked under SpecResponse.        *)
(***************************************************************************)
\* C13: trigger_fallback_logic never raises: when the second language-model
\* call raises, what it returns is the fixed string "An error occurred while
\* processing the fallback logic. Please try again later."
C13_FallbackNeverRaises ==
    (gr_pc = "done" /\ gr_result.via = "trigger_fallback_logic" /\ gr_input.llm2.raised)
        => gr_result.val =
              <<"An error occurred while processing the fallback logic. Please try again later.">>

\* the fallback was taken and its language-model call raised
C13_Witness ==
    /\ gr_pc = "done"
    /\ gr_result.via = "trigger_fallback_logic"
    /\ gr_input.llm2.raised
    /\ ~gr_input.llm.raised
    /\ gr_result.val = FALLBACK_APOLOGY

(***************************************************************************)
(* Claims about the prose and the execution of process_llm_response,       *)
(* checked under SpecProcess.                                              *)
(***************************************************************************)
\* the text holds an opening ```python and, after it, a closing fence
HasPythonBlock(t) ==
    \E i \in 1..Len(t) :
        /\ i + 3 <= Len(t)
        /\ SubSeq(t, i, i + 3) = FENCE \o PYTHON_TAG
        /\ \E j \in (i + 4)..Len(t) : j + 2 <= Len(t) /\ SubSeq(t, j, j + 2) = FENCE

\* the text holds an opening fence and, after it, a closing fence
HasBlock(t) ==
    \E i \in 1..Len(t) :
        /\ i + 2 <= Len(t)
        /\ SubSeq(t, i, i + 2) = FENCE
        /\ \E j \in (i + 3)..Len(t) : j + 2 <= Len(t) /\ SubSeq(t, j, j + 2) = FENCE

\* C14: for a text without a ```python block, process_llm_response executes
\* nothing and returns the scrubbed prose with no chart.
C14_NoBlockNoExec ==
    (pl_pc = "done" /\ ~HasPythonBlock(pl_input))
        => (/\ pl_result.status = "returned"
            /\ pl_result.execs = 0
            /\ pl_result.chart = NoneChart
            /\ pl_result.text = clean_before_exec(pl_input))

\* a text with a fenced block that is not python, and a file reference
C14_Witness ==
    /\ pl_pc = "done"
    /\ ~HasPythonBlock(pl_input)
    /\ HasBlock(pl_input)
    /\ Contains(pl_input, <<"w", ".", "png">>)
    /\ pl_result.execs = 0
    /\ pl_result.chart = NoneChart
    /\ pl_result.text # pl_input

\* C15: the prose process_llm_response returns holds no fenced block, python
\* or not, on one line or on several, and no "Python Code:" label.
C15_NoFenceLeft ==
    (pl_pc = "done" /\ pl_result.status = "returned")
        => (/\ ~HasBlock(pl_result.text)
            /\ \A i \in 1..Len(pl_result.text) : pl_result.text[i] # LABEL)

(***************************************************************************)
(* Claims about the large path's file and preview, checked under           *)
(* SpecHandle.                                                             *)
(***************************************************************************)
LargeDone == dh_pc = "done" /\ dh_result.path = "large"

\* the preview is the first HEAD_ROWS rows of the file, all of them when the
\* file has fewer
PreviewOfFile ==
    LET f == dh_file.rows
        pv == dh_result.prompt.rows
    IN  /\ Len(pv) = (IF Len(f) < 10 THEN Len(f) ELSE 10)
        /\ \A k \in 1..Len(pv) : pv[k] = f[k]

\* C19 as stated: on the large path the file holds the rows of the table
\* handed to data_handle, in their order, and the preview is the first 10 rows
\* of that table.
C19_RoundTripOriginal ==
    LargeDone
        => (/\ dh_file.rows = dh_input.data.rows
            /\ dh_result.prompt.rows =
                  SubSeq(dh_input.data.rows, 1,
                         IF Len(dh_input.data.rows) < 10 THEN Len(dh_input.data.rows) ELSE 10))

AllZero(row) == \A j \in 1..Len(row) : row[j] = Cell(0)

\* the place of a row in a table
Pos(rows, row) == Min({i \in 1..Len(rows) : rows[i] = row})

\* C19 as amended: on the large path the file holds the rows of the cleaned
\* table (missing values replaced by 0, rows of zeros only left out), in the
\* order of the table handed to data_handle, and the preview is the first 10
\* rows of the file.
C19_RoundTripCleaned ==
    LargeDone
        => LET filled == [i \in 1..Len(dh_input.data.rows) |->
                             [j \in 1..Len(dh_input.data.rows[i]) |->
                                 IF dh_input.data.rows[i][j] = Missing
                                 THEN Cell(0) ELSE dh_input.data.rows[i][j]]]
               f == dh_file.rows
           IN  /\ dh_file.type = "DataFrame"
               /\ \A k \in 1..Len(f) :
                     /\ ~AllZero(f[k])
                     /\ \E i \in 1..Len(filled) : filled[i] = f[k]
               /\ \A i \in 1..Len(filled) :
                     ~AllZero(filled[i]) => \E k \in 1..Len(f) : f[k] = filled[i]
               /\ \A k \in 1..(Len(f) - 1) : Pos(filled, f[k]) < Pos(filled, f[k + 1])
               /\ PreviewOfFile

\* a table of 101 rows whose first row holds nothing but a missing value and
\* a zero: the file has 100 rows and the preview starts at the second row
C19_Witness ==
    /\ LargeDone
    /\ Len(dh_input.data.rows) = 101
    /\ dh_input.data.rows[1] = <<Missing, Cell(0)>>
    /\ Len(dh_file.rows) = 100
    /\ Len(dh_result.prompt.rows) = 10
    /\ dh_result.prompt.rows[1] = <<Cell(2), Cell(2)>>
    /\ dh_input.rows = 11

(***************************************************************************)
(* A claim about the Streamlit flow on the short path, checked under Spec. *)
(***************************************************************************)
\* prose: some text without a fence, a file reference or a label
PlainProse(t) ==
    /\ t # << >>
    /\ \A i \in 1..Len(t) : t[i] \notin {BT, ".", LABEL}

\* C20: when the fetched table has rows, at most 100 of them, and the
\* summarizer returns prose without code and without file references, the
\* request ends with exactly that prose on the page, no chart and no error.
C20_ShortPathShowsProse ==
    (/\ pc = "done"
     /\ path = "short"
     /\ calls.process = 1
     /\ PlainProse(summary))
        => (/\ \E i \in 1..Len(outputs) : outputs[i] = Shown("write", summary, NoneChart)
            /\ \A i \in 1..Len(outputs) : outputs[i].kind \notin {"error", "altair_chart"}
            /\ ~crashed)

(***************************************************************************)
(* Claims about the namespace of the executed code, checked under SpecExec.*)
(***************************************************************************)
\* the names the statements of a code block bind
BoundBy(code) ==
    {n \in {"chart", "df", "response_text"} :
        \E i \in 1..Len(code) :
            \/ n = "chart" /\ code[i] \in {"mkchart", "mkchartdf"}
            \/ n = "df" /\ code[i] = "readfile"
            \/ n = "response_text" /\ code[i] = "settext"}

\* the text with every assignment to response_text replaced by a statement
\* that binds nothing
WithoutAssignment(t) == [i \in 1..Len(t) |-> IF t[i] = "settext" THEN "w" ELSE t[i]]

\* C16: the code block runs in a namespace that binds pd, alt and data and,
\* besides them, only what the block itself binds; a block that reads a local
\* or a module global of the caller (logger, chart before binding it) fails
\* with NameError; and the text returned is the same whether or not the block
\* assigns to response_text.
C16_NamespaceIsolated ==
    (pl_pc = "done" /\ pl_result.execs = 1)
        => LET code == code_of(pl_input)
               names == DOMAIN pl_result.local_vars
           IN  /\ {"pd", "alt", "data"} \subseteq names
               /\ names \subseteq {"pd", "alt", "data"} \cup BoundBy(code)
               /\ code[1] \in {"uselogger", "usechart", "mkchartdf"}
                     => (/\ pl_result.chart = NoneChart
                         /\ pl_result.text =
                               clean_before_exec(pl_input)
                                   \o <<"\n", ERROR_LABEL, " ", "NameError">>)
               /\ pl_result.text =
                     process_llm_response(WithoutAssignment(pl_input), NoData, NoneValue).text
               /\ pl_result.status =
                     process_llm_response(WithoutAssignment(pl_input), NoData, NoneValue).status

\* a block that assigns to response_text and then builds a chart: the chart
\* is returned and the prose is the caller's
C16_Witness ==
    /\ pl_pc = "done"
    /\ pl_input = <<"w", "\n">> \o PythonBlock(<<"settext", "\n", "mkchart">>)
    /\ pl_result.status = "returned"
    /\ pl_result.chart.kind = "Chart"
    /\ DOMAIN pl_result.local_vars = {"pd", "alt", "data", "response_text", "chart"}
    /\ pl_result.text = <<"w">>

(***************************************************************************)
(* Claims about calls that run at the same time, checked under             *)
(* SpecConcurrent.                                                         *)
(***************************************************************************)
\* C17: whatever the order in which the calls of two sessions take their
\* steps, and however many calls came before, the code of a call runs in a
\* namespace that holds pd, alt, data and what that code bound: a chart bound
\* by another call is not visible in it (reading chart before binding it is a
\* NameError), and the chart a call returns was bound by its own code from its
\* own data.
C17_OwnNamespace ==
    \A r \in Requests :
        (req[r].pc = "done")
            => LET response == req[r].locals.response
                   res == req[r].result
               IN  /\ req[r].ret[Len(req[r].ret)] = res.chart
                   /\ ~code_found(response) => res.chart = NoneChart
                   /\ code_found(response)
                         => (/\ DOMAIN res.local_vars
                                   \subseteq {"pd", "alt", "data"} \cup BoundBy(code_of(response))
                             /\ code_of(response)[1] = "usechart"
                                   => (/\ res.chart = NoneChart
                                       /\ res.text = clean_before_exec(response)
                                             \o <<"\n", ERROR_LABEL, " ", "NameError">>)
                             /\ res.chart # NoneChart
                                   => (/\ "chart" \in BoundBy(code_of(response))
                                       /\ res.chart.code = code_of(response))
                             /\ code_of(response) = <<"mkchart">>
                                   => res.chart.data =
                                         DataObject(req[r].locals.path,
                                                    req[r].locals.preprocessed_data))

\* one call returned the chart its code bound, the other call's code read
\* chart without binding it and got NameError
C17_Witness ==
    /\ req["A"].pc = "done"
    /\ req["A"].result.chart.kind = "Chart"
    /\ req["A"].result.chart.code = <<"mkchart">>
    /\ req["B"].pc = "done"
    /\ code_of(req["B"].locals.response) = <<"usechart">>
    /\ req["B"].result.chart = NoneChart
    /\ req["B"].result.execs = 1

\* C18: every large-path call writes its cleaned table to the one file
\* data.json, whatever another call wrote there, and generated code that
\* reads data.json gets what the file holds when the code runs (nothing when
\* no call has written it yet): the table of the call that wrote last, which
\* need not be its own.
C18_SharedFile ==
    [][\A r \in Requests :
          /\ (/\ req[r].pc = "data_handle"
              /\ req'[r].pc = "invoke"
              /\ Len(req[r].data.rows) > 100)
                => disk' = DataFrame(preprocess_data(req[r].data.rows))
          /\ (/\ req[r].pc = "process"
              /\ req'[r].pc = "done"
              /\ Contains(code_of(req[r].locals.response), <<"readfile", "\n", "mkchartdf">>))
                => IF disk = NoneValue
                   THEN req'[r].result.chart = NoneChart
                   ELSE /\ req'[r].result.chart.kind = "Chart"
                        /\ req'[r].result.chart.data = disk]_vars

\* A and B are both on the large path, B wrote data.json after A did and
\* before A's code ran: A's chart is built from B's table
C18_Witness ==
    /\ req["A"].pc = "done"
    /\ req["A"].locals.path = "large"
    /\ req["B"].locals.path = "large"
    /\ req["B"].pc \in {"invoke", "process", "done"}
    /\ Contains(req["A"].result.chart.code, <<"readfile", "\n", "mkchartdf">>)
    /\ req["A"].result.chart.data = DataFrame(req["B"].locals.preprocessed_data)
    /\ req["A"].result.chart.data # DataFrame(req["A"].locals.preprocessed_data)
    /\ disk = DataFrame(req["B"].locals.preprocessed_data)

(***************************************************************************)
(* Claims about what data_handle returns and on what it routes, checked    *)
(* under SpecHandle.                                                       *)
(***************************************************************************)
\* C21: on both routes data_handle returns a tuple of three: the number of
\* rows of the dataset, the cleaned response text, the chart or None.
C21_SameShape ==
    (dh_pc = "done" /\ dh_result.status = "returned")
        => (/\ Len(dh_result.ret) = 3
            /\ dh_result.ret[1] = Len(dh_input.data.rows))

\* the cleaned table of a call: written to the file on the large path,
\* embedded in the prompt on the short path
Cleaned == IF dh_result.path = "large" THEN dh_file.rows ELSE dh_result.prompt.rows

\* the table handed to data_handle with its missing values replaced by 0
Filled ==
    [i \in 1..Len(dh_input.data.rows) |->
        [j \in 1..Len(dh_input.data.rows[i]) |->
            IF dh_input.data.rows[i][j] = Missing THEN Cell(0) ELSE dh_input.data.rows[i][j]]]

\* C24 as stated: cleaning only replaces missing values by 0: the cleaned
\* table has as many rows as the fetched table, in the same order, and every
\* cell that was not missing is unchanged.
C24_OnlyFills ==
    dh_pc = "done" => Cleaned = Filled

\* C24 as amended: cleaning replaces missing values by 0 and then removes the
\* rows whose cells are all 0: the cleaned table holds the other rows, each
\* once, in the order of the fetched table, cells that were not missing
\* unchanged.
C24_FillsAndDropsZeroRows ==
    dh_pc = "done"
        => (/\ Len(Cleaned) = Cardinality({i \in 1..Len(Filled) : ~AllZero(Filled[i])})
            /\ \A k \in 1..Len(Cleaned) :
                  /\ ~AllZero(Cleaned[k])
                  /\ \E i \in 1..Len(Filled) : Filled[i] = Cleaned[k]
            /\ \A k \in 1..(Len(Cleaned) - 1) :
                  Pos(Filled, Cleaned[k]) < Pos(Filled, Cleaned[k + 1]))

\* a table of 100 rows whose first row is a missing value and a zero: the
\* cleaned table embedded in the prompt has 99 rows
C24_Witness ==
    /\ dh_pc = "done"
    /\ dh_result.path = "short"
    /\ Len(dh_input.data.rows) = 100
    /\ dh_input.data.rows[1] = <<Missing, Cell(0)>>
    /\ Len(dh_result.prompt.rows) = 99
    /\ dh_result.prompt.rows[1] = <<Cell(2), Cell(2)>>

\* C25 as stated: the route is decided on the cleaned table: on the large
\* path the cleaned table written to the file has more than 100 rows, on the
\* short path the cleaned table embedded inline has at most 100 rows.
C25_RoutedOnCleaned ==
    dh_pc = "done"
        => (/\ dh_result.path = "large" => Len(dh_file.rows) > 100
            /\ dh_result.path = "short" => Len(dh_result.prompt.rows) <= 100)

\* C25 as amended: the route is decided on the fetched table, before it is
\* cleaned: on the large path the fetched table has more than 100 rows (the
\* cleaned table written to the file has at most as many, and may have 100 or
\* fewer), on the short path the fetched table and with it the cleaned table
\* embedded inline have at most 100 rows.
C25_RoutedOnFetched ==
    dh_pc = "done"
        => (/\ dh_result.path = "large"
                  => (/\ Len(dh_input.data.rows) > 100
                      /\ Len(dh_file.rows) <= Len(dh_input.data.rows))
            /\ dh_result.path = "short"
                  => (/\ Len(dh_input.data.rows) <= 100
                      /\ Len(dh_result.prompt.rows) <= Len(dh_input.data.rows)))

\* a fetched table of 101 rows took the large path and its cleaned table, of
\* 100 rows, was written to the file
C25_Witness ==
    /\ dh_pc = "done"
    /\ dh_result.path = "large"
    /\ Len(dh_input.data.rows) = 101
    /\ Len(dh_file.rows) = 100
    /\ dh_input.filename = "data.json"

(***************************************************************************)
(* Claims about the order of the stages and the remote calls of a request, *)
(* checked under Spec.                                                     *)
(***************************************************************************)
\* C22: in a request the stages run in the order translator, then either the
\* fallback repair or refine_response, get_data, data_handle, the summarizer,
\* the code executor: the warehouse is queried with the text refine_response
\* returned, the summarizer runs only on a fetched table, code runs only after
\* the summarizer returned, and no stage runs twice.
C22_StagesInOrder ==
    /\ \A stage \in DOMAIN calls : calls[stage] <= 1
    /\ (calls.fallback > 0 \/ calls.refine > 0) => calls.translator = 1
    /\ calls.fallback > 0 => calls.refine = 0
    /\ calls.get_data > 0
          => (/\ calls.refine = 1
              /\ bq_query = <<refine_response(Str(initial_response)).val>>)
    /\ bq_query # << >> => calls.get_data = 1
    /\ calls.data_handle > 0 => (calls.get_data = 1 /\ HasRows)
    /\ calls.summarizer > 0 => calls.data_handle = 1
    /\ calls.process > 0 => (calls.summarizer = 1 /\ pc = "done")
    /\ calls.exec > 0 => calls.process = 1

\* a request that went through every stage of the SQL path, its query a
\* fenced text that refine_response unwrapped, and ended with a chart
C22_Witness ==
    /\ pc = "done"
    /\ calls = [NoCalls EXCEPT !.translator = 1, !.refine = 1, !.get_data = 1,
                               !.data_handle = 1, !.summarizer = 1, !.process = 1,
                               !.exec = 1]
    /\ bq_query = << <<SQL>> >>
    /\ initial_response # <<SQL>>
    /\ ChartShown

\* C26: in a request every remote call is made at most once: one translator
\* call, one fallback call, one warehouse query, one summarizer call; after a
\* call failed the request does not go back to it.
C26_NoRetry ==
    /\ calls.translator <= 1
    /\ calls.fallback <= 1
    /\ calls.get_data <= 1 /\ Len(bq_query) <= 1
    /\ calls.summarizer <= 1
    /\ translator_failed => (calls.translator = 1 /\ pc # "translate")
    /\ (calls.get_data = 1 /\ data = NoneValue) => pc \in {"handle", "done"}

\* the warehouse query failed and the request ended with that one query
C26_Witness ==
    /\ pc = "done"
    /\ calls.get_data = 1
    /\ data = NoneValue
    /\ Len(bq_query) = 1
    /\ calls.summarizer = 0

\* C30: a request with a query in the text area does not end silently: when
\* it is over the page shows the fallback text, the data summary, "No
\* relevant data found." or an error message, whatever the fetch returned.
C30_NoSilentEnd ==
    (pc = "done" /\ user_query # << >>) => outputs # << >>

(***************************************************************************)
(* Claims about the chart, the blocks and the file references of           *)
(* process_llm_response, checked under SpecProcess.                        *)
(***************************************************************************)
\* C23: the chart returned is not None exactly when a ```python block was
\* found, its execution did not raise and the namespace then binds chart; it
\* is then the object chart is bound to.  When the code binds chart and then
\* raises, None is returned.
C23_ChartIffBound ==
    pl_pc = "done"
        => (/\ (pl_result.chart # NoneChart)
                  <=> (/\ HasPythonBlock(pl_input)
                       /\ pl_result.status = "returned"
                       /\ ~Contains(pl_result.text, <<ERROR_LABEL>>)
                       /\ "chart" \in DOMAIN pl_result.local_vars)
            /\ pl_result.chart # NoneChart
                  => pl_result.chart = pl_result.local_vars["chart"])

\* the code bound chart and then raised: no chart is returned
C23_Witness ==
    /\ pl_pc = "done"
    /\ Contains(pl_input, PythonBlock(<<"mkchart", "\n", "raise">>))
    /\ "chart" \in DOMAIN pl_result.local_vars
    /\ pl_result.chart = NoneChart
    /\ Contains(pl_result.text, <<ERROR_LABEL, " ", "boom">>)

\* the interior, trimmed, of the first ```python block of a text
FirstCode(t) ==
    LET opens == {i \in 1..Len(t) :
                     /\ i + 3 <= Len(t)
                     /\ SubSeq(t, i, i + 3) = FENCE \o PYTHON_TAG
                     /\ \E j \in (i + 4)..Len(t) :
                           j + 2 <= Len(t) /\ SubSeq(t, j, j + 2) = FENCE}
        i == Min(opens)
        j == Min({k \in (i + 4)..Len(t) : k + 2 <= Len(t) /\ SubSeq(t, k, k + 2) = FENCE})
    IN  strip(SubSeq(t, i + 4, j - 1))

\* C27: of several fenced blocks process_llm_response executes the first
\* ```python block, once, and nothing else: what it returns is decided by
\* that block alone, and the later ```python blocks are gone from the prose.
C27_FirstBlockOnly ==
    (pl_pc = "done" /\ HasPythonBlock(pl_input))
        => LET code == FirstCode(pl_input)
           IN  /\ pl_result.execs = 1
               /\ (pl_result.status = "raised") <=> (code = <<"exit">>)
               /\ pl_result.chart # NoneChart => pl_result.chart.code = code
               /\ code = <<"mkchart">> => pl_result.chart.kind = "Chart"
               /\ code \in { <<"raise">>, <<"mkchart", "\n", "raise">> }
                     => Contains(pl_result.text, <<ERROR_LABEL, " ", "boom">>)
               /\ code \in { <<"w">>, <<"mkchart">> }
                     => ~Contains(pl_result.text, <<ERROR_LABEL>>)
               /\ pl_result.status = "returned" => ~HasPythonBlock(pl_result.text)

\* a block that builds a chart, then a block that is not python, then a block
\* that would end the process: the chart is returned
C27_Witness ==
    /\ pl_pc = "done"
    /\ pl_input = PythonBlock(<<"mkchart">>) \o FENCE \o <<"x">> \o FENCE
                      \o PythonBlock(<<"exit">>)
    /\ pl_result.status = "returned"
    /\ pl_result.execs = 1
    /\ pl_result.chart.kind = "Chart"
    /\ pl_result.text = << >>

\* the text holds a file reference: word characters, a dot and one of the
\* extensions png, html, json, up to a word boundary
HasFileRef(t) ==
    \E i \in 1..(Len(t) - 2) :
        /\ IsWord(t[i])
        /\ t[i + 1] = "."
        /\ t[i + 2] \in {"png", "html", "json"}
        /\ (i + 2 = Len(t) \/ ~WordStart(t[i + 3]))

\* C28: the text process_llm_response returns holds no file reference, on
\* any return path, the error line of a failed execution included.
C28_NoFileRefs ==
    (pl_pc = "done" /\ pl_result.status = "returned") => ~HasFileRef(pl_result.text)

(***************************************************************************)
(* A claim about refine_response applied twice, checked under              *)
(* SpecRefineTwice.                                                        *)
(***************************************************************************)
\* C29: refine_response(refine_response(t)) = refine_response(t)
\* for every text t.
C29_Idempotent ==
    rr_pc = "twice" => (rr_result.status = "returned" /\ rr_result.val = rr_result.first)

=============================================================================
